---- MODULE Spec2Model ----
(***************************************************************************)
(* Review lifecycle of the GitHub PR code review agent, for one record key *)
(* (owner, repo, pull request number).                                     *)
(*                                                                         *)
(* Every request (a pull_request webhook delivery or a manual retry) is a  *)
(* task.  A task is first the HTTP handler (handlePullRequest or           *)
(* retryReview) and, once admitted, the processReviewAsync run it launches.*)
(* Node runs the code between two awaits without interruption, so one      *)
(* action is one awaited operation (a record store read or write, a GitHub *)
(* or Gemini call) together with the synchronous code that follows it up   *)
(* to the next await.                                                      *)
(*                                                                         *)
(* The record store is MongoDB through mongoose: a handler works on its    *)
(* own in-memory document and save() writes onto the stored record the     *)
(* fields whose assigned value differs from the value the document held;   *)
(* there is no lock and no compare-and-set, so concurrent writers are      *)
(* last-write-wins per field.                                              *)
(***************************************************************************)
EXTENDS Integers, FiniteSets, Sequences, TLC

\* ------------------------------------------------------------------ bounds
\* Requests (webhook deliveries and retry requests) per behaviour.
MaxTasks == 2
\* Record store writes that may be rejected (a lost connection) per behaviour.
MaxStoreFaults == 1
\* Elements of the array in an AI response.
MaxItems == 2
\* Half-minutes the clock of the webhook rate limiter advances per
\* behaviour.
MaxTicks == 2
\* Requests without a client address that the limiter's table holds.
MaxAnonymous == 1

Tasks == 1..MaxTasks
\* Record ids: one a task may insert, and the id of a record that an
\* earlier, finished request left in the store.
EarlierId == MaxTasks + 1
Ids == 1..EarlierId
\* The commits the pull request's head moves through: commit A, commit B.
Commits == 1..2

\* ---------------------------------------------------------------- constants
Null == 0

relevantActions == {"opened", "synchronize", "reopened"}
\* "closed" stands for every action that is not relevant.
Actions == relevantActions \cup {"closed"}

\* Error messages a run can end with (error.message in processReviewAsync).
MsgFetch == "Failed to fetch PR data"
\* The same failure when GitHub's answer names its status 503.
MsgFetchUnavailable == "Failed to fetch PR data: 503 Service Unavailable"
MsgOverloaded == "Failed to generate code review after 5 attempts: 503 overloaded"
MsgGenerate == "Failed to generate code review after 5 attempts: fatal"
MsgPost == "Failed to post review"
MsgStore == "record store write failed"
MsgValidation == "Review validation failed: comments.0.category"
NoMessage == "null"
\* errorMessage of a record that was never given one (the schema has no
\* default for it).
Unset == "undefined"

\* ------------------------------------------------------------- the record
\* reviewSchema: the fields of a new Review for the event's pull request.
\* reviewedSha is the head commit of the prData the stored comments and
\* summary were generated from (Null: no comments stored yet);
\* filesReviewed is the length of the stored list of files.
NewReview(sha, date) ==
  [exists |-> TRUE, status |-> "pending", commitSha |-> sha,
   errorMessage |-> Unset, retryCount |-> 0,
   reviewStartedAt |-> date, reviewCompletedAt |-> Null,
   reviewedSha |-> Null, githubReviewId |-> Null, filesReviewed |-> 0]

NoRecord ==
  [exists |-> FALSE, status |-> "pending", commitSha |-> Null,
   errorMessage |-> Unset, retryCount |-> 0,
   reviewStartedAt |-> Null, reviewCompletedAt |-> Null,
   reviewedSha |-> Null, githubReviewId |-> Null, filesReviewed |-> 0]

\* Dates are compared only by their order, so the store keeps them up to
\* that order: the earlier of the record's two dates is 1.
Later(a, b) == IF a > b THEN a ELSE b

\* new Date(): a date later than the dates the record holds.
Now(r) == Later(r.reviewStartedAt, r.reviewCompletedAt) + 1

Dated(r) ==
  LET s == r.reviewStartedAt
      c == r.reviewCompletedAt
  IN IF c = Null THEN [r EXCEPT !.reviewStartedAt = 1]
     ELSE IF s < c THEN [r EXCEPT !.reviewStartedAt = 1, !.reviewCompletedAt = 2]
     ELSE IF s > c THEN [r EXCEPT !.reviewStartedAt = 2, !.reviewCompletedAt = 1]
     ELSE [r EXCEPT !.reviewStartedAt = 1, !.reviewCompletedAt = 1]

\* reviewSchema.methods: the fields each method assigns, written by save()
\* onto the stored record r.
markInProgress(r, date) ==
  [r EXCEPT !.status = "in_progress", !.reviewStartedAt = date]

markCompleted(r, reviewId, date) ==
  [r EXCEPT !.status = "completed", !.reviewCompletedAt = date,
            !.githubReviewId = IF reviewId # Null THEN reviewId ELSE @]

markFailed(r, message, date) ==
  [r EXCEPT !.status = "failed", !.errorMessage = message,
            !.reviewCompletedAt = date]

\* save() of a document that was read from the store: a field is written
\* when the value assigned to it differs from the value the document held;
\* a field assigned the value it held is left as the store has it.
Saved(stored, held, assigned) == IF assigned = held THEN stored ELSE assigned

\* this.retryCount += 1 is computed on the in-memory document d.
\* incrementRetry that leaves the error message of the failed run.
incrementRetryKeepsError(r, d) ==
  [r EXCEPT !.retryCount = d.retryCount + 1,
            !.status = Saved(@, d.status, "pending")]

incrementRetry(r, d) ==
  [r EXCEPT !.retryCount = d.retryCount + 1,
            !.status = Saved(@, d.status, "pending"),
            !.errorMessage = Saved(@, d.errorMessage, NoMessage)]

\* A refresh that starts the record over: no retries, no completion date.
refreshReviewStartsOver(r, d, sha) ==
  [r EXCEPT !.commitSha = Saved(@, d.commitSha, sha),
            !.status = Saved(@, d.status, "pending"),
            !.errorMessage = Saved(@, d.errorMessage, NoMessage),
            !.retryCount = 0, !.reviewCompletedAt = Null]

\* A refresh that keeps the commit of the earlier review.
refreshReviewKeepsCommit(r, d, sha) ==
  [r EXCEPT !.status = Saved(@, d.status, "pending"),
            !.errorMessage = Saved(@, d.errorMessage, NoMessage)]

\* handlePullRequest, the update of an existing record read as document d.
refreshReview(r, d, sha) ==
  [r EXCEPT !.commitSha = Saved(@, d.commitSha, sha),
            !.status = Saved(@, d.status, "pending"),
            !.errorMessage = Saved(@, d.errorMessage, NoMessage)]

\* The in-memory document: what the task read of the record, for the
\* fields it assigns later.
NoDoc ==
  [id |-> Null, status |-> "none", retryCount |-> 0, commitSha |-> Null,
   errorMessage |-> Unset, filesReviewed |-> 0]
\* The document of a handler (findByPR).
DocOf(id, rec) ==
  [id |-> id, status |-> rec.status, retryCount |-> rec.retryCount,
   commitSha |-> rec.commitSha, errorMessage |-> rec.errorMessage,
   filesReviewed |-> 0]
\* A launched run before its findById: processReviewAsync is given the id
\* only.
RunDoc(id) == [NoDoc EXCEPT !.id = id]
\* The document of a run (findById): the run assigns errorMessage and
\* filesReviewed.
Loaded(id, rec) ==
  [RunDoc(id) EXCEPT !.errorMessage = rec.errorMessage,
                     !.filesReviewed = rec.filesReviewed]

NoReq == [action |-> "none", sha |-> Null]
NoData == [sha |-> Null, files |-> 0]
NoResp == [task |-> 0, message |-> "none"]
\* The calls a run has made to GitHub and to the AI service, by method.
NoCalls ==
  [hasAlreadyReviewed |-> 0, getPullRequestData |-> 0, generateReview |-> 0,
   postReviewComments |-> 0, postFallbackComment |-> 0]

VARIABLES
  store,      \* record store: record id -> record (NoRecord: no such record)
  pc,         \* per task: the await it is suspended at
  req,        \* per task: the admitted event (action, head sha)
  doc,        \* per task: its in-memory document
  prData,     \* per task: the fetched PR data (head sha, number of files)
  githubReview, \* per task: the id of the review it posted (Null: none)
  marked,     \* per task: its run's markInProgress write was applied
  error,      \* per task: the error caught by processReviewAsync
  calls,      \* per task: the external calls its run has made
  resp,       \* the HTTP response the last action sent (NoResp: none)
  reviews,    \* GitHub: reviews the bot has posted on the pull request
  headSha,    \* GitHub: the pull request's head commit
  faults,     \* record store writes rejected so far
  gen,        \* one invocation of geminiService.generateReview, on its own
  limit       \* the webhook rate limiter, on its own

run == <<store, pc, req, doc, prData, githubReview, marked, error, calls,
         resp, reviews, headSha, faults>>

vars == <<store, pc, req, doc, prData, githubReview, marked, error, calls,
          resp, reviews, headSha, faults, gen, limit>>

\* No invocation of generateReview is followed.
GenIdle ==
  [pc |-> "idle", attempt |-> 0, calls |-> 0, waits |-> <<>>,
   lastError |-> NoMessage,
   thrown |-> [attempts |-> 0, cause |-> NoMessage],
   response |-> [shape |-> "none", items |-> <<>>],
   comments |-> <<>>, summary |-> NoMessage]

\* The limiter before any delivery: the clock at 0, webhookRateLimit.requests
\* an empty Map, no request admitted, no request answered.
LimitIdle ==
  [now |-> 0, requests |-> [k \in {} |-> <<>>],
   admitted |-> [k \in {"10.0.0.1", "unknown"} |-> <<>>],
   last |-> [key |-> "none", status |-> "none"]]

\* The record an earlier "opened" event for commit 1 left behind when its
\* run failed to fetch the PR data, and when its run posted review 1.
FailedReview ==
  Dated(markFailed(Dated(markInProgress(NewReview(1, 1), 2)), MsgFetch, 3))

CompletedReview ==
  Dated(markCompleted([Dated(markInProgress(NewReview(1, 1), 2))
                         EXCEPT !.reviewedSha = 1, !.filesReviewed = 1],
                       1, 3))

\* The store holds no record, or the record of an earlier request.
RunInit ==
  /\ \E earlier \in {NoRecord, FailedReview, CompletedReview} :
       /\ store = [i \in Ids |-> IF i = EarlierId THEN earlier ELSE NoRecord]
       /\ reviews = IF earlier.githubReviewId = Null THEN 0 ELSE 1
  /\ pc = [t \in Tasks |-> "idle"]
  /\ req = [t \in Tasks |-> NoReq]
  /\ doc = [t \in Tasks |-> NoDoc]
  /\ prData = [t \in Tasks |-> NoData]
  /\ githubReview = [t \in Tasks |-> Null]
  /\ marked = [t \in Tasks |-> FALSE]
  /\ error = [t \in Tasks |-> NoMessage]
  /\ calls = [t \in Tasks |-> NoCalls]
  /\ resp = NoResp
  /\ headSha = 1
  /\ faults = 0

Init == RunInit /\ gen = GenIdle /\ limit = LimitIdle

\* ------------------------------------------------------- the record store
Existing == {i \in Ids : store[i].exists}

\* Review.findByPR: findOne on the key; the id of the record, or Null.
findByPR ==
  IF Existing = {} THEN Null
  ELSE CHOOSE i \in Existing : \A j \in Existing : i <= j

StatusOf(id) == IF id = Null THEN "none" ELSE store[id].status

\* The unique index on (pullRequestId, repository) rejects the insert of a
\* second record for the key (E11000 duplicate key).
\* A store without the unique index.
NoUniqueIndex == FALSE

UniqueIndexRejects == Existing # {}

\* ------------------------------------------------------------ the gates
\* The decision on an event without the check of a completed record.
triggerGateIgnoresCompleted(action, draft, status) ==
  IF action \notin relevantActions THEN "Action not processed"
  ELSE IF draft THEN "Draft PR skipped"
  ELSE "admit"

\* The decision on an event without the check of a draft.
triggerGateIgnoresDraft(action, draft, status) ==
  IF action \notin relevantActions THEN "Action not processed"
  ELSE IF status = "completed" /\ action # "synchronize"
       THEN "PR already reviewed"
  ELSE "admit"

\* handlePullRequest: the decision on an event, in the order of the code.
triggerGate(action, draft, status) ==
  IF action \notin relevantActions THEN "Action not processed"
  ELSE IF status = "completed" /\ action # "synchronize"
       THEN "PR already reviewed"
  ELSE IF draft THEN "Draft PR skipped"
  ELSE "admit"

\* A check of the query that looks at owner only.
queryGateOwnerOnly(owner, repo) ==
  IF ~owner THEN "Owner and repo query parameters are required" ELSE "ok"

\* getReviewStatus and retryReview: if (!owner || !repo); owner and repo
\* say whether the query parameter is given.
queryGate(owner, repo) ==
  IF ~owner \/ ~repo THEN "Owner and repo query parameters are required"
  ELSE "ok"

\* The decision on a retry request without the check of a run in progress.
retryGateIgnoresInProgress(status) ==
  IF status = "none" THEN "Review not found"
  ELSE IF status = "completed" THEN "Review already completed"
  ELSE "admit"

\* retryReview: the decision on a retry request.
retryGate(status) ==
  IF status = "none" THEN "Review not found"
  ELSE IF status = "completed" THEN "Review already completed"
  ELSE IF status = "in_progress" THEN "Review already in progress"
  ELSE "admit"

\* The X-Hub-Signature-256 header of a delivery: absent, not the HMAC of
\* the body, or the HMAC of the body.
Signatures == {"none", "invalid", "valid"}

\* A validator that verifies the signature before it looks at the headers.
validateGitHubWebhookSignatureFirst(event, delivery, secret, signature) ==
  IF secret /\ signature = "none" THEN "Missing webhook signature"
  ELSE IF secret /\ signature = "invalid" THEN "Invalid webhook signature"
  ELSE IF ~event THEN "Missing X-GitHub-Event header"
  ELSE IF ~delivery THEN "Missing X-GitHub-Delivery header"
  ELSE "next"

\* validateGitHubWebhook: event and delivery say whether the X-GitHub-Event
\* and X-GitHub-Delivery headers are present, secret whether
\* GITHUB_WEBHOOK_SECRET is configured.  The error it answers, or "next".
validateGitHubWebhook(event, delivery, secret, signature) ==
  IF ~event THEN "Missing X-GitHub-Event header"
  ELSE IF ~delivery THEN "Missing X-GitHub-Delivery header"
  ELSE IF secret /\ signature = "none" THEN "Missing webhook signature"
  ELSE IF secret /\ signature = "invalid" THEN "Invalid webhook signature"
  ELSE "next"

\* The HTTP status of a response.
StatusCode(message) ==
  CASE message = "Review not found" -> 404
    [] message \in {"Review already completed",
                    "Review already in progress",
                    "Owner and repo query parameters are required",
                    "Missing X-GitHub-Event header",
                    "Missing X-GitHub-Delivery header"} -> 400
    [] message \in {"Missing webhook signature",
                    "Invalid webhook signature"} -> 401
    [] message = "Internal server error" -> 500
    [] message = "none" -> 0
    [] OTHER -> 200

\* ------------------------------------------------------------- GitHub, AI
\* githubService.hasAlreadyReviewed: a bot review exists; false when the
\* listing fails (the catch returns false).
\* A check that never finds the bot's review.
hasAlreadyReviewedNever(n, apiOk) == FALSE

hasAlreadyReviewed(n, apiOk) == IF apiOk THEN n > 0 ELSE FALSE

\* processReviewAsync, catch: error.message.includes('503') ||
\* error.message.includes('overloaded'), whatever step threw the error.
Overloaded(message) == message \in {MsgOverloaded, MsgFetchUnavailable}

\* Where a run goes once it has caught an error.
CatchPc(message) ==
  IF Overloaded(message) THEN "postFallbackComment" ELSE "markFailed"

\* ---------------------------------------------------- the AI's response
\* reviewCommentSchema: the categories a stored comment may have.
categoryEnum ==
  {"security", "performance", "readability", "best-practices", "testing",
   "documentation", "bug", "maintainability"}

\* reviewCommentSchema.severity: the stored enumeration, which is also
\* parseReviewResponse's list of allowed severities.
severityEnum == {"error", "warning", "suggestion"}

normalizeSeverity(severity) ==
  IF severity \in severityEnum THEN severity ELSE "error"

\* The elements an AI response's array may hold: JSON null, or an object
\* with or without file and comment text, with a category ("null": none)
\* and a severity ("critical": one the schema does not list).
NullItem == [isNull |-> TRUE, file |-> FALSE, comment |-> FALSE,
             category |-> "null", severity |-> "null"]
Item(file, comment, category) ==
  [isNull |-> FALSE, file |-> file, comment |-> comment,
   category |-> category, severity |-> "warning"]
Items ==
  {NullItem, Item(TRUE, TRUE, "security"), Item(TRUE, TRUE, "null"),
   Item(TRUE, TRUE, "style"), Item(FALSE, TRUE, "bug"),
   [Item(TRUE, TRUE, "bug") EXCEPT !.severity = "critical"]}

\* What the JSON parsers make of a response text: "array" (both the cleaned
\* and the raw text parse to the array of items), "rawArray" (only the raw
\* text between the first '[' and the last ']' does), "object" (the text
\* parses, not to an array), "invalid" (no parse succeeds).
Shapes == {"array", "rawArray", "object", "invalid"}

\* parseReviewResponse: the filter and the map applied to a parsed array.
\* Reading .file of a null element throws a TypeError.
RECURSIVE CleanComments(_)
CleanComments(items) ==
  IF items = <<>> THEN <<>>
  ELSE LET c == Head(items)
       IN IF c.file /\ c.comment
          THEN <<[severity |-> normalizeSeverity(c.severity),
                  category |-> IF c.category = "null" THEN "general"
                               ELSE c.category]>>
                 \o CleanComments(Tail(items))
          ELSE CleanComments(Tail(items))

HasNull(items) == \E i \in 1..Len(items) : items[i].isNull

\* parseReviewResponse: the primary parse, then the fallback parse on its
\* failure, then the empty list.
parseReviewResponse(r) ==
  LET primaryThrows == \/ r.shape \in {"rawArray", "invalid"}
                       \/ r.shape = "array" /\ HasNull(r.items)
      fallbackArray == r.shape \in {"array", "rawArray"}
  IN IF ~primaryThrows
     THEN IF r.shape = "array" THEN CleanComments(r.items) ELSE <<>>
     ELSE IF fallbackArray /\ ~HasNull(r.items)
          THEN CleanComments(r.items)
          ELSE <<>>

\* A summary that always lists findings.
generateSummaryCommentOfFindings(comments) == "Review Summary"

\* generateSummaryComment: which of its texts it returns.
generateSummaryComment(comments) ==
  IF Len(comments) = 0 THEN "No issues found" ELSE "Review Summary"

\* mongoose validation of review.comments on save: the category enum.
ValidComments(comments) ==
  \A i \in 1..Len(comments) :
    /\ comments[i].severity \in severityEnum
    /\ comments[i].category \in categoryEnum

Response(shape, items) == [shape |-> shape, items |-> items]

\* The responses a run may receive: without structured content, an empty
\* array, a comment with a category of the schema, one without category.
RunResponses ==
  {Response("invalid", <<>>), Response("array", <<>>),
   Response("array", <<Item(TRUE, TRUE, "security")>>),
   Response("array", <<Item(TRUE, TRUE, "null")>>)}

\* What generateReview hands to processReviewAsync: a response it parsed,
\* or the error it threw.
GenerateOutcomes ==
  {[message |-> NoMessage, response |-> r] : r \in RunResponses}
    \cup {[message |-> m, response |-> Response("invalid", <<>>)] :
            m \in {MsgOverloaded, MsgGenerate}}

\* -------------------------------------------------------------- triggers
\* Requests arrive in the order of their task numbers.
MayArrive(t) ==
  pc[t] = "idle" /\ (IF t = 1 THEN TRUE ELSE pc[t - 1] # "idle")

StoreMayFail == faults < MaxStoreFaults

Respond(t, message) == resp' = [task |-> t, message |-> message]

\* The task ends: its locals are dropped.
Ends(t) ==
  /\ pc' = [pc EXCEPT ![t] = "done"]
  /\ req' = [req EXCEPT ![t] = NoReq]
  /\ doc' = [doc EXCEPT ![t] = NoDoc]
  /\ prData' = [prData EXCEPT ![t] = NoData]
  /\ githubReview' = [githubReview EXCEPT ![t] = Null]
  /\ marked' = [marked EXCEPT ![t] = FALSE]
  /\ error' = [error EXCEPT ![t] = NoMessage]
  /\ calls' = [calls EXCEPT ![t] = NoCalls]

\* A run that starts at the check for an earlier review, without
\* markInProgress.
LaunchesUnmarked(t, id) ==
  /\ pc' = [pc EXCEPT ![t] = "hasAlreadyReviewed"]
  /\ req' = [req EXCEPT ![t] = NoReq]
  /\ doc' = [doc EXCEPT ![t] = RunDoc(id)]

\* processReviewAsync(owner, repo, pullNumber, review._id) is called.
Launches(t, id) ==
  /\ pc' = [pc EXCEPT ![t] = "markInProgress"]
  /\ req' = [req EXCEPT ![t] = NoReq]
  /\ doc' = [doc EXCEPT ![t] = RunDoc(id)]

\* A delivery that validateGitHubWebhook answers itself: the controller is
\* not called.
validated(t, event, delivery, secret, signature) ==
  /\ MayArrive(t)
  /\ validateGitHubWebhook(event, delivery, secret, signature) # "next"
  /\ pc' = [pc EXCEPT ![t] = "done"]
  /\ Respond(t, validateGitHubWebhook(event, delivery, secret, signature))
  /\ UNCHANGED <<store, req, doc, prData, githubReview, marked, error,
                 reviews, headSha, faults>>
  /\ UNCHANGED <<calls, gen, limit>>

webhookRejected(t) ==
  \E event \in BOOLEAN, delivery \in BOOLEAN, secret \in BOOLEAN,
     signature \in Signatures :
    validated(t, event, delivery, secret, signature)

\* A handler that records a skip decision in the record it found.
handleEventRecordsSkip(t, action, draft) ==
  /\ MayArrive(t)
  /\ LET id == IF action \in relevantActions THEN findByPR ELSE Null
         decision == triggerGate(action, draft, StatusOf(id))
     IN IF decision = "admit"
        THEN /\ pc' = [pc EXCEPT ![t] = "save"]
             /\ req' = [req EXCEPT ![t] = [action |-> action,
                                           sha |-> headSha]]
             /\ doc' = [doc EXCEPT ![t] = IF id = Null THEN NoDoc
                                          ELSE DocOf(id, store[id])]
             /\ resp' = NoResp
             /\ store' = store
        ELSE /\ pc' = [pc EXCEPT ![t] = "done"]
             /\ Respond(t, decision)
             /\ store' = IF id = Null THEN store
                         ELSE [store EXCEPT ![id].status = "skipped"]
             /\ UNCHANGED <<req, doc>>
  /\ UNCHANGED <<prData, githubReview, marked, error, reviews, headSha,
                 faults>>
  /\ UNCHANGED <<calls, gen, limit>>

\* handlePullRequest up to the admission: the action check, findByPR and the
\* skip decisions.  An admitted event waits for its save.
handleEvent(t, action, draft) ==
  /\ MayArrive(t)
  /\ LET id == IF action \in relevantActions THEN findByPR ELSE Null
         decision == triggerGate(action, draft, StatusOf(id))
     IN IF decision = "admit"
        THEN /\ pc' = [pc EXCEPT ![t] = "save"]
             /\ req' = [req EXCEPT ![t] = [action |-> action,
                                           sha |-> headSha]]
             /\ doc' = [doc EXCEPT ![t] = IF id = Null THEN NoDoc
                                          ELSE DocOf(id, store[id])]
             /\ resp' = NoResp
        ELSE /\ pc' = [pc EXCEPT ![t] = "done"]
             /\ Respond(t, decision)
             /\ UNCHANGED <<req, doc>>
  /\ UNCHANGED <<store, prData, githubReview, marked, error, reviews,
                 headSha, faults>>
  /\ UNCHANGED <<calls, gen, limit>>

\* A pull_request delivery: any action, draft or not.
handlePullRequest(t) ==
  \E action \in Actions, draft \in BOOLEAN : handleEvent(t, action, draft)

\* A handler that launches the run and responds without its save having
\* been written.
saveReviewLaunchesFirst(t) ==
  /\ pc[t] = "save"
  /\ Launches(t, IF doc[t].id = Null THEN t ELSE doc[t].id)
  /\ Respond(t, "PR review started")
  /\ UNCHANGED <<store, prData, githubReview, marked, error, calls>>
  /\ UNCHANGED <<reviews, headSha, faults>>
  /\ UNCHANGED <<gen, limit>>

\* handlePullRequest, "Create or update review record": the save of the new
\* or refreshed record, then the launch of processReviewAsync and the
\* response.  A rejected insert is answered by handleWebhook's catch.
saveReview(t) ==
  /\ pc[t] = "save"
  /\ IF doc[t].id = Null /\ UniqueIndexRejects
     THEN /\ Ends(t)
          /\ Respond(t, "Webhook received")
          /\ store' = store
     ELSE /\ IF doc[t].id = Null
             THEN /\ store' = [store EXCEPT ![t] =
                                 Dated(NewReview(req[t].sha, Now(@)))]
                  /\ Launches(t, t)
             ELSE /\ store' = [store EXCEPT ![doc[t].id] =
                                 refreshReview(@, doc[t], req[t].sha)]
                  /\ Launches(t, doc[t].id)
          /\ Respond(t, "PR review started")
          /\ UNCHANGED <<prData, githubReview, marked, error, calls>>
  /\ UNCHANGED <<reviews, headSha, faults>>
  /\ UNCHANGED <<gen, limit>>

\* A rejected save that reaches the error handler instead of
\* handleWebhook's catch.
saveReviewFailsUncaught(t) ==
  /\ pc[t] = "save"
  /\ StoreMayFail
  /\ faults' = faults + 1
  /\ Ends(t)
  /\ Respond(t, "Internal server error")
  /\ UNCHANGED <<store, reviews, headSha>>
  /\ UNCHANGED <<gen, limit>>

\* The record store rejects the save of handlePullRequest.
saveReviewFails(t) ==
  /\ pc[t] = "save"
  /\ StoreMayFail
  /\ faults' = faults + 1
  /\ Ends(t)
  /\ Respond(t, "Webhook received")
  /\ UNCHANGED <<store, reviews, headSha>>
  /\ UNCHANGED <<gen, limit>>

\* getReviewStatus: the check of the query, findByPR and the answer.
statusRequested(t, owner, repo) ==
  /\ MayArrive(t)
  /\ pc' = [pc EXCEPT ![t] = "done"]
  /\ Respond(t, IF queryGate(owner, repo) # "ok"
                THEN queryGate(owner, repo)
                ELSE IF findByPR = Null THEN "Review not found"
                ELSE "Review status")
  /\ UNCHANGED <<store, req, doc, prData, githubReview, marked, error,
                 reviews, headSha, faults>>
  /\ UNCHANGED <<calls, gen, limit>>

getReviewStatus(t) ==
  \E owner \in BOOLEAN, repo \in BOOLEAN : statusRequested(t, owner, repo)

\* retryReview up to the admission: the check of the query, findByPR and
\* the status checks.
retryRequested(t, owner, repo) ==
  /\ MayArrive(t)
  /\ LET id == IF queryGate(owner, repo) = "ok" THEN findByPR ELSE Null
         decision == IF queryGate(owner, repo) # "ok"
                     THEN queryGate(owner, repo)
                     ELSE retryGate(StatusOf(id))
     IN IF decision = "admit"
        THEN /\ pc' = [pc EXCEPT ![t] = "incrementRetry"]
             /\ doc' = [doc EXCEPT ![t] = DocOf(id, store[id])]
             /\ resp' = NoResp
        ELSE /\ pc' = [pc EXCEPT ![t] = "done"]
             /\ Respond(t, decision)
             /\ doc' = doc
  /\ UNCHANGED <<store, req, prData, githubReview, marked, error, reviews,
                 headSha, faults>>
  /\ UNCHANGED <<calls, gen, limit>>

retryReview(t) ==
  \E owner \in BOOLEAN, repo \in BOOLEAN : retryRequested(t, owner, repo)

\* retryReview: review.incrementRetry(), then the launch of
\* processReviewAsync and the response.
retryAdmitted(t) ==
  /\ pc[t] = "incrementRetry"
  /\ store' = [store EXCEPT ![doc[t].id] = incrementRetry(@, doc[t])]
  /\ Launches(t, doc[t].id)
  /\ Respond(t, "Review retry initiated")
  /\ UNCHANGED <<prData, githubReview, marked, error, reviews, headSha,
                 faults>>
  /\ UNCHANGED <<calls, gen, limit>>

\* The record store rejects incrementRetry's save: the error handler
\* answers 500.
retryAdmittedFails(t) ==
  /\ pc[t] = "incrementRetry"
  /\ StoreMayFail
  /\ faults' = faults + 1
  /\ Ends(t)
  /\ Respond(t, "Internal server error")
  /\ UNCHANGED <<store, reviews, headSha>>
  /\ UNCHANGED <<gen, limit>>

\* ---------------------------------------------------- processReviewAsync
\* The record the run works on (Review.findById(reviewId)).
Rec(t) == store[doc[t].id]

Throw(t, message) ==
  /\ error' = [error EXCEPT ![t] = message]
  /\ pc' = [pc EXCEPT ![t] = CatchPc(message)]

\* A run that takes up a record id without a record.
runMarkInProgressUpserts(t) ==
  /\ pc[t] = "markInProgress"
  /\ store' = [store EXCEPT ![doc[t].id] =
                 Dated(markInProgress([@ EXCEPT !.exists = TRUE], Now(@)))]
  /\ marked' = [marked EXCEPT ![t] = TRUE]
  /\ pc' = [pc EXCEPT ![t] = "hasAlreadyReviewed"]
  /\ resp' = NoResp
  /\ UNCHANGED <<req, doc, prData, githubReview, error, calls, reviews,
                 headSha, faults>>
  /\ UNCHANGED <<gen, limit>>

\* Review.findById and review.markInProgress().  A missing record throws
\* with no document loaded, so the catch marks nothing.
runMarkInProgress(t) ==
  /\ pc[t] = "markInProgress"
  /\ IF ~Rec(t).exists
     THEN Ends(t) /\ store' = store
     ELSE /\ store' = [store EXCEPT ![doc[t].id] =
                         Dated(markInProgress(@, Now(@)))]
          /\ marked' = [marked EXCEPT ![t] = TRUE]
          /\ pc' = [pc EXCEPT ![t] = "hasAlreadyReviewed"]
          /\ doc' = [doc EXCEPT ![t] = Loaded(doc[t].id, Rec(t))]
          /\ UNCHANGED <<req, prData, githubReview, error, calls>>
  /\ resp' = NoResp
  /\ UNCHANGED <<reviews, headSha, faults>>
  /\ UNCHANGED <<gen, limit>>

\* The record store rejects markInProgress's save: the catch takes over
\* with the document loaded.
runMarkInProgressFails(t) ==
  /\ pc[t] = "markInProgress"
  /\ Rec(t).exists
  /\ StoreMayFail
  /\ faults' = faults + 1
  /\ Throw(t, MsgStore)
  /\ doc' = [doc EXCEPT ![t] = Loaded(doc[t].id, Rec(t))]
  /\ resp' = NoResp
  /\ UNCHANGED <<store, req, prData, githubReview, marked, reviews,
                 headSha>>
  /\ UNCHANGED <<calls, gen, limit>>

\* githubService.hasAlreadyReviewed and the branch on its answer.
\* apiOk: the listing of the reviews succeeds.
alreadyReviewedAnswered(t, apiOk) ==
  /\ pc[t] = "hasAlreadyReviewed"
  /\ pc' = [pc EXCEPT ![t] = IF hasAlreadyReviewed(reviews, apiOk)
                             THEN "markCompleted"
                             ELSE "getPullRequestData"]
  /\ resp' = NoResp
  /\ UNCHANGED <<store, req, doc, prData, githubReview, marked, error,
                 reviews, headSha, faults>>
  /\ calls' = [calls EXCEPT ![t].hasAlreadyReviewed = @ + 1]
  /\ UNCHANGED <<gen, limit>>

runHasAlreadyReviewed(t) ==
  \E apiOk \in BOOLEAN : alreadyReviewedAnswered(t, apiOk)

\* A run that generates a review also when no file is reviewable.
runGetPullRequestDataAlwaysGenerates(t) ==
  /\ pc[t] = "getPullRequestData"
  /\ \/ /\ \E n \in {0, 1} :
             /\ prData' = [prData EXCEPT ![t] = [sha |-> headSha,
                                                 files |-> n]]
             /\ store' = [store EXCEPT ![doc[t].id].filesReviewed =
                                          Saved(@, doc[t].filesReviewed, n)]
             /\ pc' = [pc EXCEPT ![t] = "generateReview"]
        /\ error' = error
     \/ /\ \E message \in {MsgFetch, MsgFetchUnavailable} :
             Throw(t, message)
        /\ UNCHANGED <<prData, store>>
  /\ resp' = NoResp
  /\ UNCHANGED <<req, doc, githubReview, marked, reviews, headSha, faults>>
  /\ calls' = [calls EXCEPT ![t].getPullRequestData = @ + 1]
  /\ UNCHANGED <<gen, limit>>

\* githubService.getPullRequestData (the head commit and the reviewable
\* files, or "Failed to fetch PR data"), then the save of filesReviewed and
\* the branch on an empty file list.
runGetPullRequestData(t) ==
  /\ pc[t] = "getPullRequestData"
  /\ \/ /\ \E n \in {0, 1} :
             /\ prData' = [prData EXCEPT ![t] = [sha |-> headSha,
                                                 files |-> n]]
             /\ store' = [store EXCEPT ![doc[t].id].filesReviewed =
                                          Saved(@, doc[t].filesReviewed, n)]
             /\ pc' = [pc EXCEPT ![t] = IF n = 0 THEN "markCompleted"
                                        ELSE "generateReview"]
        /\ error' = error
     \/ /\ \E message \in {MsgFetch, MsgFetchUnavailable} :
             Throw(t, message)
        /\ UNCHANGED <<prData, store>>
  /\ resp' = NoResp
  /\ UNCHANGED <<req, doc, githubReview, marked, reviews, headSha, faults>>
  /\ calls' = [calls EXCEPT ![t].getPullRequestData = @ + 1]
  /\ UNCHANGED <<gen, limit>>

\* A run that goes on to post without having saved comments and summary.
generatedSkipsSave(t, out) ==
  /\ pc[t] = "generateReview"
  /\ IF out.message # NoMessage
     THEN Throw(t, out.message)
     ELSE pc' = [pc EXCEPT ![t] = "postReviewComments"] /\ error' = error
  /\ store' = store
  /\ prData' = [prData EXCEPT ![t] = NoData]
  /\ resp' = NoResp
  /\ UNCHANGED <<req, doc, githubReview, marked, reviews, headSha, faults>>
  /\ calls' = [calls EXCEPT ![t].generateReview = @ + 1]
  /\ UNCHANGED <<gen, limit>>

\* geminiService.generateReview and generateSummaryComment, then the save of
\* comments and summary, which validation rejects when a comment's category
\* is not of the schema; or generateReview's error.
generated(t, out) ==
  /\ pc[t] = "generateReview"
  /\ IF out.message # NoMessage
     THEN Throw(t, out.message) /\ store' = store
     ELSE LET comments == parseReviewResponse(out.response)
          IN IF ValidComments(comments)
             THEN /\ store' = [store EXCEPT
                                 ![doc[t].id].reviewedSha = prData[t].sha]
                  /\ pc' = [pc EXCEPT ![t] = "postReviewComments"]
                  /\ error' = error
             ELSE Throw(t, MsgValidation) /\ store' = store
  /\ prData' = [prData EXCEPT ![t] = NoData]
  /\ resp' = NoResp
  /\ UNCHANGED <<req, doc, githubReview, marked, reviews, headSha, faults>>
  /\ calls' = [calls EXCEPT ![t].generateReview = @ + 1]
  /\ UNCHANGED <<gen, limit>>

runGenerateReview(t) == \E out \in GenerateOutcomes : generated(t, out)

\* A run that posts again when posting has failed.
runPostReviewCommentsRetries(t) ==
  /\ pc[t] = "postReviewComments"
  /\ \/ /\ reviews' = reviews + 1
        /\ githubReview' = [githubReview EXCEPT ![t] = reviews + 1]
        /\ pc' = [pc EXCEPT ![t] = "markCompleted"]
        /\ error' = error
     \/ /\ IF calls[t].postReviewComments = 0
           THEN UNCHANGED <<pc, error>>
           ELSE Throw(t, MsgPost)
        /\ UNCHANGED <<reviews, githubReview>>
  /\ resp' = NoResp
  /\ UNCHANGED <<store, req, doc, prData, marked, headSha, faults>>
  /\ calls' = [calls EXCEPT ![t].postReviewComments = @ + 1]
  /\ UNCHANGED <<gen, limit>>

\* githubService.postReviewComments: the review is created on GitHub, or
\* "Failed to post review".
runPostReviewComments(t) ==
  /\ pc[t] = "postReviewComments"
  /\ \/ /\ reviews' = reviews + 1
        /\ githubReview' = [githubReview EXCEPT ![t] = reviews + 1]
        /\ pc' = [pc EXCEPT ![t] = "markCompleted"]
        /\ error' = error
     \/ /\ Throw(t, MsgPost)
        /\ UNCHANGED <<reviews, githubReview>>
  /\ resp' = NoResp
  /\ UNCHANGED <<store, req, doc, prData, marked, headSha, faults>>
  /\ calls' = [calls EXCEPT ![t].postReviewComments = @ + 1]
  /\ UNCHANGED <<gen, limit>>

\* review.markCompleted(githubReview.id), or markCompleted() on the two
\* early returns.
runMarkCompleted(t) ==
  /\ pc[t] = "markCompleted"
  /\ store' = [store EXCEPT ![doc[t].id] =
                 Dated(markCompleted(@, githubReview[t], Now(@)))]
  /\ Ends(t)
  /\ resp' = NoResp
  /\ UNCHANGED <<reviews, headSha, faults>>
  /\ UNCHANGED <<gen, limit>>

\* The record store rejects markCompleted's save.
runMarkCompletedFails(t) ==
  /\ pc[t] = "markCompleted"
  /\ StoreMayFail
  /\ faults' = faults + 1
  /\ Throw(t, MsgStore)
  /\ resp' = NoResp
  /\ UNCHANGED <<store, req, doc, prData, githubReview, marked, reviews,
                 headSha>>
  /\ UNCHANGED <<calls, gen, limit>>

\* catch: githubService.postFallbackComment on an overload error; its own
\* failure is logged only.
runPostFallbackComment(t) ==
  /\ pc[t] = "postFallbackComment"
  /\ pc' = [pc EXCEPT ![t] = "markFailed"]
  /\ resp' = NoResp
  /\ UNCHANGED <<store, req, doc, prData, githubReview, marked, error,
                 reviews, headSha, faults>>
  /\ calls' = [calls EXCEPT ![t].postFallbackComment = @ + 1]
  /\ UNCHANGED <<gen, limit>>

\* The run's document holds the comments whose save validation rejected:
\* every later save of that document is rejected as well.
DocInvalid(t) == error[t] = MsgValidation

\* catch: review.markFailed(error.message), then the rethrow.  markFailed
\* saves the run's document, comments included.
runMarkFailed(t) ==
  /\ pc[t] = "markFailed"
  /\ store' = IF DocInvalid(t) THEN store
              ELSE [store EXCEPT ![doc[t].id] =
                      Dated(markFailed(@, Saved(@.errorMessage,
                                                doc[t].errorMessage,
                                                error[t]), Now(@)))]
  /\ Ends(t)
  /\ resp' = NoResp
  /\ UNCHANGED <<reviews, headSha, faults>>
  /\ UNCHANGED <<gen, limit>>

\* The record store rejects markFailed's save: the run ends with that error
\* and the record as it was.
runMarkFailedFails(t) ==
  /\ pc[t] = "markFailed"
  /\ StoreMayFail
  /\ faults' = faults + 1
  /\ Ends(t)
  /\ resp' = NoResp
  /\ UNCHANGED <<store, reviews, headSha>>
  /\ UNCHANGED <<gen, limit>>

\* ------------------------------------------------------------ environment
\* A push moves the pull request's head to the next commit.
Push ==
  /\ headSha + 1 \in Commits
  /\ headSha' = headSha + 1
  /\ resp' = NoResp
  /\ UNCHANGED <<store, pc, req, doc, prData, githubReview, marked, error,
                 reviews, faults>>
  /\ UNCHANGED <<calls, gen, limit>>

Next ==
  \/ Push
  \/ \E t \in Tasks :
       \/ webhookRejected(t)
       \/ handlePullRequest(t)
       \/ saveReview(t)
       \/ saveReviewFails(t)
       \/ getReviewStatus(t)
       \/ retryReview(t)
       \/ retryAdmitted(t)
       \/ retryAdmittedFails(t)
       \/ runMarkInProgress(t)
       \/ runMarkInProgressFails(t)
       \/ runHasAlreadyReviewed(t)
       \/ runGetPullRequestData(t)
       \/ runGenerateReview(t)
       \/ runPostReviewComments(t)
       \/ runMarkCompleted(t)
       \/ runMarkCompletedFails(t)
       \/ runPostFallbackComment(t)
       \/ runMarkFailed(t)
       \/ runMarkFailedFails(t)

Spec == Init /\ [][Next]_vars

\* ------------------------------------------ processReviewAsync on its own
\* processReviewAsync(owner, repo, pullNumber, reviewId) called by every
\* task with the same reviewId, for which the store holds no record, a new
\* record, or the completed record a synchronize event has refreshed; the
\* bot may have posted a review before.
OrchInit ==
  /\ \E rec \in {NoRecord, Dated(NewReview(1, 1)),
                  refreshReview(CompletedReview,
                                DocOf(EarlierId, CompletedReview), 1)} :
       /\ store = [i \in Ids |-> IF i = EarlierId THEN rec ELSE NoRecord]
       /\ reviews \in (IF rec.githubReviewId = Null THEN {0, 1} ELSE {1})
  /\ pc = [t \in Tasks |-> "markInProgress"]
  /\ req = [t \in Tasks |-> NoReq]
  /\ doc = [t \in Tasks |-> RunDoc(EarlierId)]
  /\ prData = [t \in Tasks |-> NoData]
  /\ githubReview = [t \in Tasks |-> Null]
  /\ marked = [t \in Tasks |-> FALSE]
  /\ error = [t \in Tasks |-> NoMessage]
  /\ calls = [t \in Tasks |-> NoCalls]
  /\ resp = NoResp
  /\ headSha = 1
  /\ faults = 0
  /\ gen = GenIdle
  /\ limit = LimitIdle

OrchNext ==
  \/ Push
  \/ \E t \in Tasks :
       \/ runMarkInProgress(t)
       \/ runMarkInProgressFails(t)
       \/ runHasAlreadyReviewed(t)
       \/ runGetPullRequestData(t)
       \/ runGenerateReview(t)
       \/ runPostReviewComments(t)
       \/ runMarkCompleted(t)
       \/ runMarkCompletedFails(t)
       \/ runPostFallbackComment(t)
       \/ runMarkFailed(t)
       \/ runMarkFailedFails(t)

OrchSpec == OrchInit /\ [][OrchNext]_vars

\* ------------------------------------------ geminiService.generateReview
\* One invocation of generateReview followed attempt by attempt, up to the
\* save of its comments by processReviewAsync.  Times are in milliseconds.
maxRetries == 5

\* error.message of a failed generateContent call.
AiErrors ==
  {"503 Service Unavailable", "The model is overloaded",
   "API key not valid", "429 quota exceeded"}

\* error.message.includes('503') || error.message.includes('overloaded')
Retryable(message) ==
  message \in {"503 Service Unavailable", "The model is overloaded"}

\* Math.random() * 1000, to the millisecond: some values of [0, 1000).
Jitters == {0, 999}

\* A wait that grows by two seconds per attempt.
BaseWaitTimeLinear(attempt) == attempt * 2000

BaseWaitTime(attempt) == (2 ^ attempt) * 1000

\* A loop that waits after every overload, whatever the attempt.
MayRetryAlways(attempt) == TRUE

MayRetry(attempt) == attempt < maxRetries

\* The response texts of the AI, by what the parsers make of them.
Responses ==
  {Response(shape, items) :
     shape \in Shapes,
     items \in UNION {[1..n -> Items] : n \in 0..MaxItems}}

GenStart == [GenIdle EXCEPT !.pc = "attempt", !.attempt = 1]

GenInit ==
  /\ RunInit
  /\ ~store[EarlierId].exists
  /\ gen = GenStart
  /\ limit = LimitIdle

\* generateContent answers with a text: parseReviewResponse's comments are
\* returned, and processReviewAsync builds the summary.
attemptReturns(r) ==
  /\ gen.pc = "attempt"
  /\ gen' = [gen EXCEPT !.pc = "save", !.calls = @ + 1, !.response = r,
                        !.comments = parseReviewResponse(r),
                        !.summary =
                          generateSummaryComment(parseReviewResponse(r))]
  /\ UNCHANGED <<run, limit>>

\* A catch that waits and continues after every failure.
attemptThrowsRetriesAll(e, jitter) ==
  /\ gen.pc = "attempt"
  /\ LET waitTime == BaseWaitTime(gen.attempt) + jitter
     IN IF MayRetry(gen.attempt)
        THEN gen' = [gen EXCEPT !.pc = "wait", !.calls = @ + 1,
                                !.lastError = e,
                                !.waits = Append(@, waitTime)]
        ELSE gen' = [gen EXCEPT !.pc = "thrown", !.calls = @ + 1,
                                !.lastError = e,
                                !.thrown = [attempts |-> maxRetries,
                                            cause |-> e]]
  /\ UNCHANGED <<run, limit>>

\* generateContent throws: the catch of the loop waits and continues, or
\* leaves the loop for the final throw.
attemptThrows(e, jitter) ==
  /\ gen.pc = "attempt"
  /\ LET waitTime == BaseWaitTime(gen.attempt) + jitter
     IN IF Retryable(e) /\ MayRetry(gen.attempt)
        THEN gen' = [gen EXCEPT !.pc = "wait", !.calls = @ + 1,
                                !.lastError = e,
                                !.waits = Append(@, waitTime)]
        ELSE gen' = [gen EXCEPT !.pc = "thrown", !.calls = @ + 1,
                                !.lastError = e,
                                !.thrown = [attempts |-> maxRetries,
                                            cause |-> e]]
  /\ UNCHANGED <<run, limit>>

\* The timer of the wait fires: the next attempt.
waitEnds ==
  /\ gen.pc = "wait"
  /\ gen' = [gen EXCEPT !.pc = "attempt", !.attempt = @ + 1]
  /\ UNCHANGED <<run, limit>>

\* processReviewAsync: review.comments = comments; review.save().
saveComments ==
  /\ gen.pc = "save"
  /\ gen' = [gen EXCEPT !.pc = IF ValidComments(gen.comments)
                               THEN "saved" ELSE "rejected"]
  /\ UNCHANGED <<run, limit>>

GenNext ==
  \/ \E r \in Responses : attemptReturns(r)
  \/ \E e \in AiErrors, jitter \in Jitters : attemptThrows(e, jitter)
  \/ waitEnds
  \/ saveComments

GenSpec == GenInit /\ [][GenNext]_vars

\* ------------------------------------------------------ webhookRateLimit
\* The second middleware of the webhook route, after validateGitHubWebhook.
\* limit.now is Date.now() in milliseconds, limit.requests the Map from the
\* client key to the timestamps recorded for it, limit.last the answer to
\* the last delivery ("next": handed on to the rest of the route).
\* limit.admitted keeps, for the properties, the times of the deliveries
\* the limiter handed on that are younger than the window.
windowMs == 60 * 1000
maxRequests == 100
\* requests.size > 1000: the table is cleaned up.
maxEntries == 1000

\* The clock is read at half-windows.
TickMs == windowMs \div 2

\* req.ip of a delivery ("none": undefined) and the keys of the table.
ClientIps == {"10.0.0.1", "none"}
Keys == {"10.0.0.1", "unknown"}

\* userRequests.filter(timestamp => now - timestamp < windowMs)
Young(timestamps, now) ==
  SelectSeq(timestamps, LAMBDA timestamp : now - timestamp < windowMs)

\* The clean-up of a table of more than 1000 keys: the keys without a
\* timestamp or whose last one is older than two windows are deleted.
cleanUp(requests, now) ==
  IF Cardinality(DOMAIN requests) > maxEntries
  THEN LET kept == {k \in DOMAIN requests :
                      ~ \/ Len(requests[k]) = 0
                        \/ now - requests[k][Len(requests[k])]
                             > windowMs * 2}
       IN [k \in kept |-> requests[k]]
  ELSE requests

\* A limiter that rejects only above the limit.
webhookRateLimitAboveLimit(ip, delivery) ==
  LET now == limit.now
      requests == limit.requests
      key == IF ip = "none" THEN "unknown" ELSE ip
      userRequests == IF key \in DOMAIN requests THEN requests[key]
                      ELSE <<>>
      validRequests == Young(userRequests, now)
  IN /\ validateGitHubWebhook(TRUE, delivery, FALSE, "none") = "next"
     /\ key = "unknown" => Len(userRequests) < MaxAnonymous
     /\ limit' =
          IF ~delivery
          THEN [limit EXCEPT !.last = [key |-> key, status |-> "next"]]
          ELSE IF Len(validRequests) > maxRequests
          THEN [limit EXCEPT !.last = [key |-> key, status |-> "429"]]
          ELSE [limit EXCEPT
                  !.requests =
                    cleanUp((key :> Append(validRequests, now)) @@ requests,
                            now),
                  !.admitted[key] = Append(@, now),
                  !.last = [key |-> key, status |-> "next"]]
     /\ UNCHANGED <<run, gen>>

\* webhookRateLimit for a delivery that validateGitHubWebhook handed on
\* (so its X-GitHub-Delivery header is present): 429 when maxRequests
\* recorded timestamps of the key are younger than the window, else the
\* timestamp is recorded and the delivery handed on.
webhookRateLimit(ip, delivery) ==
  LET now == limit.now
      requests == limit.requests
      key == IF ip = "none" THEN "unknown" ELSE ip
      userRequests == IF key \in DOMAIN requests THEN requests[key]
                      ELSE <<>>
      validRequests == Young(userRequests, now)
  IN /\ validateGitHubWebhook(TRUE, delivery, FALSE, "none") = "next"
     /\ key = "unknown" => Len(userRequests) < MaxAnonymous
     /\ limit' =
          IF ~delivery
          THEN [limit EXCEPT !.last = [key |-> key, status |-> "next"]]
          ELSE IF Len(validRequests) >= maxRequests
          THEN [limit EXCEPT !.last = [key |-> key, status |-> "429"]]
          ELSE [limit EXCEPT
                  !.requests =
                    cleanUp((key :> Append(validRequests, now)) @@ requests,
                            now),
                  !.admitted[key] = Append(@, now),
                  !.last = [key |-> key, status |-> "next"]]
     /\ UNCHANGED <<run, gen>>

\* Half a window passes; the admitted deliveries that are no longer younger
\* than the window are forgotten.
Tick ==
  /\ limit.now < MaxTicks * TickMs
  /\ limit' =
       [limit EXCEPT
          !.now = @ + TickMs,
          !.admitted = [k \in Keys |->
                          SelectSeq(limit.admitted[k],
                                    LAMBDA t : t > limit.now + TickMs
                                                     - windowMs)],
          !.last = [key |-> "none", status |-> "none"]]
  /\ UNCHANGED <<run, gen>>

LimitInit ==
  /\ RunInit
  /\ ~store[EarlierId].exists
  /\ gen = GenIdle
  /\ limit = LimitIdle

LimitNext ==
  \/ \E ip \in ClientIps, delivery \in BOOLEAN :
       webhookRateLimit(ip, delivery)
  \/ Tick

LimitSpec == LimitInit /\ [][LimitNext]_vars

\* ------------------------------------------------------------ properties
\* C1: under any interleaving, every change of the stored record's status
\* follows a legal edge (pending -> in_progress, in_progress -> completed or
\* failed, anything -> pending by a retry or a refresh); in particular it
\* never goes from pending to completed or failed, nor from one terminal
\* status to another.  Stated for the behaviours in which the record store
\* rejects no write.
C1_StatusFollowsLegalEdges ==
  [][faults' = 0 =>
       \A i \in Ids :
         store[i].exists =>
           LET a == store[i].status
               b == store'[i].status
           IN \/ a = b
              \/ a = "pending" /\ b = "in_progress"
              \/ a = "in_progress" /\ b \in {"completed", "failed"}
              \/ b = "pending"]_vars

\* C2: a PR event that finds the record in_progress does not re-trigger:
\* its handler neither resets the status to pending nor launches a second
\* run.
C2_InProgressNotRetriggered ==
  [][\A t \in Tasks :
       (pc[t] = "save" /\ pc'[t] # "save" /\ doc[t].status = "in_progress")
         => /\ pc'[t] # "markInProgress"
            /\ \A i \in Ids : store'[i].status = store[i].status]_vars

\* C3: whenever reviewStartedAt and reviewCompletedAt are both present,
\* reviewStartedAt is no later than reviewCompletedAt.
C3_StartedNoLaterThanCompleted ==
  \A i \in Ids :
    (store[i].exists /\ store[i].reviewCompletedAt # Null)
      => store[i].reviewStartedAt <= store[i].reviewCompletedAt

C5_CompletedCommentsMatchCommit ==
  \A i \in Ids :
    (store[i].exists /\ store[i].status = "completed"
       /\ store[i].reviewedSha # Null)
      => store[i].reviewedSha >= store[i].commitSha

\* C6: at most one Review record exists for the key, whatever triggers were
\* processed.
C6_AtMostOneRecord == Cardinality(Existing) <= 1

\* A second event for a key without a record lost the race for the insert.
C6_Witness ==
  /\ resp.message = "Webhook received"
  /\ faults = 0
  /\ Cardinality(Existing) = 1

\* C7: a run that starts after an earlier run posted its review without
\* the record having been completed finds that review and goes on to mark
\* the record completed.
C7_LaterRunFindsPostedReview ==
  [][\A t \in Tasks :
       (/\ pc[t] = "hasAlreadyReviewed"
        /\ pc'[t] # pc[t]
        /\ reviews > 0
        /\ Rec(t).githubReviewId = Null
        /\ \A u \in Tasks \ {t} : pc[u] \in {"idle", "done"})
         => pc'[t] = "markCompleted"]_vars

\* C8: an event is admitted (saved and launched) only when the record it
\* read was not completed or the action is synchronize; nothing ties the
\* admission to the record as it is when it is saved.
C8_AdmittedOnWhatWasRead ==
  [][\A t \in Tasks :
       (pc[t] = "save" /\ pc'[t] = "markInProgress")
         => (doc[t].status # "completed" \/ req[t].action = "synchronize")]_vars

\* Two triggers for a key whose record was never completed were both
\* admitted, and both runs posted a review.
C8_Witness ==
  /\ ~store[EarlierId].exists
  /\ faults = 0
  /\ reviews = 2
  /\ \A t \in {1, 2} : pc[t] = "markCompleted" /\ githubReview[t] # Null

C10_RetryRejected ==
  [][\A t \in Tasks :
       (MayArrive(t) /\ retryRequested(t, TRUE, TRUE)
          /\ StatusOf(findByPR) \in {"completed", "in_progress"})
         => /\ StatusCode(resp'.message) = 400
            /\ resp'.task = t
            /\ store' = store
            /\ pc'[t] = "done"]_vars

\* A retry request was rejected because a run is in progress.
C10_Witness ==
  /\ resp.message = "Review already in progress"
  /\ \E i \in Ids : store[i].status = "in_progress"

\* C11: an opened or reopened event on a key whose record is completed is
\* skipped: the record is not modified, no run is launched and no GitHub
\* or AI call is made.
C11_CompletedSkipsNonSynchronize ==
  [][\A t \in Tasks, draft \in BOOLEAN :
       \A action \in relevantActions \ {"synchronize"} :
         (handleEvent(t, action, draft) /\ StatusOf(findByPR) = "completed")
           => /\ resp' = [task |-> t, message |-> "PR already reviewed"]
              /\ pc'[t] = "done"
              /\ \A u \in Tasks \ {t} : pc'[u] = pc[u]
              /\ store' = store
              /\ reviews' = reviews]_vars

\* An event was skipped because the record is completed.
C11_Witness ==
  /\ resp.message = "PR already reviewed"
  /\ pc[resp.task] = "done"
  /\ StatusOf(findByPR) = "completed"

\* C12: a synchronize event for commit B on a key whose record is completed
\* at commit A is admitted; its save leaves the record at commit B, pending
\* and without error message, and the run is launched after that save.
\* Stated for a pull request that is not a draft and a save that the record
\* store does not reject.  The save writes the fields whose value it changes
\* in the document the handler read: the commit when the event's commit is
\* not the one read, the error message when the one read was not null.
C12_SynchronizeRefreshes ==
  [][\A t \in Tasks :
       /\ (handleEvent(t, "synchronize", FALSE)
             /\ StatusOf(findByPR) = "completed")
            => /\ pc'[t] = "save"
               /\ req'[t].sha = headSha
               /\ store' = store
       /\ (/\ pc[t] = "save"
           /\ pc'[t] # "save"
           /\ faults' = faults
           /\ req[t].action = "synchronize"
           /\ doc[t].status = "completed")
            => /\ (doc[t].commitSha # req[t].sha
                      \/ Rec(t).commitSha = req[t].sha)
                    => store'[doc[t].id].commitSha = req[t].sha
               /\ store'[doc[t].id].status = "pending"
               /\ (doc[t].errorMessage # NoMessage
                      \/ Rec(t).errorMessage = NoMessage)
                    => store'[doc[t].id].errorMessage = NoMessage
               /\ pc'[t] = "markInProgress"
               /\ resp' = [task |-> t, message |-> "PR review started"]]_vars

\* The first request was a synchronize event for commit B on the record
\* completed at commit A: the record is refreshed and its run launched.
C12_Witness ==
  /\ resp = [task |-> 1, message |-> "PR review started"]
  /\ pc[1] = "markInProgress"
  /\ store[EarlierId].githubReviewId # Null
  /\ store[EarlierId].status = "pending"
  /\ store[EarlierId].commitSha = 2

\* C13: an event for a draft pull request is skipped: no record is created,
\* an existing record is not modified and no run is launched.
C13_DraftSkipped ==
  [][\A t \in Tasks, action \in Actions :
       handleEvent(t, action, TRUE)
         => /\ resp'.task = t
            /\ resp'.message \in {"Draft PR skipped", "PR already reviewed",
                                  "Action not processed"}
            /\ pc'[t] = "done"
            /\ \A u \in Tasks \ {t} : pc'[u] = pc[u]
            /\ store' = store
            /\ reviews' = reviews]_vars

\* A draft event for a key without a record was skipped and no record was
\* created.
C13_Witness ==
  /\ resp.message = "Draft PR skipped"
  /\ pc[resp.task] = "done"
  /\ Existing = {}

\* C14: whenever a run that has loaded its record fails at a step, the
\* catch leaves the record failed, with the error's message as its
\* errorMessage, before the run ends with that error.  Stated for the runs
\* whose write the record store does not reject for a cause of its own.
C14_FailureIsRecorded ==
  [][\A t \in Tasks :
       (pc[t] = "markFailed" /\ pc'[t] = "done" /\ faults' = faults)
         => /\ store'[doc[t].id].status = "failed"
            /\ store'[doc[t].id].errorMessage = error[t]]_vars

\* C15: every validated pull_request delivery is answered 200, also when
\* its handling throws; an admitted delivery is answered by the step that
\* launches the run, and no step of a run sends a response.
C15_DeliveryAcknowledged ==
  [][\A t \in Tasks :
       /\ (handlePullRequest(t) /\ pc'[t] = "done")
            => resp'.task = t /\ StatusCode(resp'.message) = 200
       /\ (pc[t] = "save" /\ pc'[t] # "save")
            => resp'.task = t /\ StatusCode(resp'.message) = 200
       /\ (pc[t] \notin {"idle", "save", "incrementRetry", "done"}
             /\ pc'[t] # pc[t])
            => resp' = NoResp]_vars

\* The save of an admitted delivery was rejected and the delivery was
\* acknowledged all the same.
C15_Witness ==
  /\ resp.message = "Webhook received"
  /\ StatusCode(resp.message) = 200
  /\ pc[resp.task] = "done"
  /\ faults = 1

\* C16: one invocation of generateReview issues at most 5 generation
\* attempts, whatever the outcomes of the AI call.
C16_AtMostFiveAttempts == gen.calls <= 5 /\ gen.attempt <= 5

\* All five attempts were made and failed with an overload.
C16_Witness ==
  gen.pc = "thrown" /\ gen.calls = 5 /\ Retryable(gen.lastError)

\* C17: the wait before the Nth retry is 2^N seconds plus a jitter in
\* [0, 1) seconds, so the waits grow strictly; there are at most 4 waits,
\* and none follows the last attempt of the invocation.
C17_BackoffGrows ==
  /\ Len(gen.waits) <= 4
  /\ Len(gen.waits) = CASE gen.pc = "attempt" -> gen.attempt - 1
                        [] gen.pc = "wait" -> gen.attempt
                        [] OTHER -> gen.calls - 1
  /\ \A n \in 1..Len(gen.waits) :
       /\ gen.waits[n] >= (2 ^ n) * 1000
       /\ gen.waits[n] < (2 ^ n) * 1000 + 1000
       /\ n > 1 => gen.waits[n] > gen.waits[n - 1]

\* Four waits were performed and the fifth attempt failed.
C17_Witness ==
  gen.pc = "thrown" /\ Len(gen.waits) = 4 /\ gen.calls = 5

\* C18: a failure that does not signal 503/overloaded ends the invocation
\* at once: no wait and no further attempt follows it, also after earlier
\* retryable failures.
C18_FatalPropagatesAtOnce ==
  [][/\ (gen.pc = "attempt" /\ gen'.pc \in {"wait", "thrown"}
           /\ ~Retryable(gen'.lastError))
          => /\ gen'.pc = "thrown"
             /\ gen'.waits = gen.waits
             /\ gen'.thrown.cause = gen'.lastError
     /\ gen.pc = "thrown" => gen' = gen]_vars

\* The third attempt failed fatally after two overloads.
C18_Witness ==
  /\ gen.pc = "thrown"
  /\ ~Retryable(gen.lastError)
  /\ gen.calls = 3
  /\ Len(gen.waits) = 2

\* C19: the error generateReview throws names the last underlying cause
\* and the number of attempts actually made.
C19_ErrorNamesAttemptsMade ==
  gen.pc = "thrown"
    => /\ gen.thrown.cause = gen.lastError
       /\ gen.thrown.attempts = gen.calls

\* C20: when the AI call succeeds with a response without valid structured
\* content (neither parse yields a list), generation returns no comment,
\* the summary is the "no issues found" text, and the run does not fail on
\* it: the save of the comments is accepted.
C20_UnstructuredResponseDegrades ==
  (/\ gen.pc \in {"save", "saved", "rejected"}
   /\ \/ gen.response.shape \in {"object", "invalid"}
      \/ HasNull(gen.response.items))
    => /\ gen.comments = <<>>
       /\ gen.summary = "No issues found"
       /\ gen.pc # "rejected"

\* A response that no parse accepts was received on the second attempt and
\* its empty comment list was saved.
C20_Witness ==
  /\ gen.pc = "saved"
  /\ gen.response.shape = "invalid"
  /\ gen.calls = 2
  /\ gen.comments = <<>>

\* C21: a run called with a record id for which no record exists ends at
\* once with its error: it creates and modifies no record and has made and
\* makes no call to GitHub or to the AI service.
C21_MissingRecordIsFatal ==
  [][\A t \in Tasks :
       /\ (pc[t] = "markInProgress" /\ ~Rec(t).exists /\ pc'[t] # pc[t])
            => /\ pc'[t] = "done"
               /\ store' = store
               /\ reviews' = reviews
               /\ calls[t] = NoCalls
               /\ calls'[t] = NoCalls
       /\ pc[t] = "done" => pc'[t] = "done"]_vars

\* The runs called for a missing record have ended and the store holds no
\* record.
C21_Witness ==
  /\ Existing = {}
  /\ \A t \in Tasks : pc[t] = "done"
  /\ reviews = 0

\* C22: when the query for a review of the bot answers true, the run goes
\* on to markCompleted without a write or a post; the run that completes
\* the record on that answer has made no other call than the query, and
\* leaves the stored comments and the GitHub review id as they were.
C22_AlreadyReviewedCompletes ==
  [][\A t \in Tasks :
       /\ (alreadyReviewedAnswered(t, TRUE) /\ reviews > 0)
            => /\ pc'[t] = "markCompleted"
               /\ store' = store
               /\ reviews' = reviews
       /\ (/\ pc[t] = "markCompleted"
           /\ calls[t].getPullRequestData = 0
           /\ pc'[t] = "done")
            => /\ calls[t] = [NoCalls EXCEPT !.hasAlreadyReviewed = 1]
               /\ store'[doc[t].id].status = "completed"
               /\ store'[doc[t].id].reviewedSha = Rec(t).reviewedSha
               /\ store'[doc[t].id].githubReviewId = Rec(t).githubReviewId
               /\ reviews' = reviews]_vars

\* A run found the review posted before and is about to complete the
\* record that holds that review's id.
C22_Witness ==
  \E t \in Tasks :
    /\ pc[t] = "markCompleted"
    /\ calls[t] = [NoCalls EXCEPT !.hasAlreadyReviewed = 1]
    /\ Rec(t).githubReviewId # Null
    /\ Rec(t).status = "in_progress"

\* C23: when the fetched list of reviewable files is empty, the run stores
\* the empty list (a list another run stored since this run loaded an empty
\* one stays) and goes on to markCompleted; the run that completes the
\* record on an empty list has generated and posted nothing, and leaves
\* the GitHub review id of the record as it was.
C23_NoFilesCompletes ==
  [][\A t \in Tasks :
       /\ (/\ pc[t] = "getPullRequestData"
           /\ prData'[t].sha # Null
           /\ prData'[t].files = 0)
            => /\ pc'[t] = "markCompleted"
               /\ (doc[t].filesReviewed # 0 \/ Rec(t).filesReviewed = 0)
                    => store'[doc[t].id].filesReviewed = 0
               /\ reviews' = reviews
       /\ (/\ pc[t] = "markCompleted"
           /\ prData[t].sha # Null
           /\ pc'[t] = "done")
            => /\ prData[t].files = 0
               /\ calls[t].generateReview = 0
               /\ calls[t].postReviewComments = 0
               /\ store'[doc[t].id].status = "completed"
               /\ store'[doc[t].id].filesReviewed = Rec(t).filesReviewed
               /\ store'[doc[t].id].githubReviewId = Rec(t).githubReviewId
               /\ reviews' = reviews]_vars

\* A run fetched an empty list for the record of an earlier review of one
\* file: the stored list is empty and the run is about to complete.
C23_Witness ==
  \E t \in Tasks :
    /\ pc[t] = "markCompleted"
    /\ prData[t] = [sha |-> headSha, files |-> 0]
    /\ Rec(t).filesReviewed = 0
    /\ Rec(t).reviewedSha # Null

\* C24: a run calls getPullRequestData at most once and postReviewComments
\* at most once (and generateReview, with its retries inside, at most
\* once); a failure of the fetch or of the posting takes the run to its
\* catch, from which no step of the pipeline is taken again, and the catch
\* leaves the record failed; it holds that error unless the document had
\* been loaded with the very same message and another run has replaced it
\* since (the save writes only what the document sees changed).  The last
\* part is stated for a markFailed write that the record store does not
\* reject.
C24_FetchAndPostOnce ==
  [][\A t \in Tasks :
       /\ calls'[t].getPullRequestData <= 1
       /\ calls'[t].generateReview <= 1
       /\ calls'[t].postReviewComments <= 1
       /\ (/\ pc[t] \in {"getPullRequestData", "postReviewComments"}
           /\ calls'[t] # calls[t]
           /\ pc'[t] \notin {"generateReview", "markCompleted"})
            => /\ pc'[t] \in {"markFailed", "postFallbackComment"}
               /\ error'[t] # NoMessage
               /\ reviews' = reviews
       /\ pc[t] = "postFallbackComment"
            => pc'[t] \in {"postFallbackComment", "markFailed"}
       /\ pc[t] = "markFailed" => pc'[t] \in {"markFailed", "done"}
       /\ (/\ pc[t] = "markFailed"
           /\ pc'[t] = "done"
           /\ faults' = faults
           /\ calls[t].getPullRequestData = 1
           /\ calls[t].generateReview = 0 \/ calls[t].postReviewComments = 1)
            => /\ store'[doc[t].id].status = "failed"
               /\ (\/ doc[t].errorMessage # error[t]
                   \/ Rec(t).errorMessage = error[t])
                    => store'[doc[t].id].errorMessage = error[t]]_vars

\* The posting of a run failed after its one fetch and its one generation;
\* the run is in its catch.
C24_Witness ==
  \E t \in Tasks :
    /\ pc[t] = "markFailed"
    /\ error[t] = MsgPost
    /\ calls[t].getPullRequestData = 1
    /\ calls[t].postReviewComments = 1
    /\ reviews = 0

\* C25: the fallback notice is posted only by a run whose error is the
\* overload failure that generateReview throws when its retries are
\* exhausted; a run that fails at another step posts no notice.
C25_FallbackOnlyOnAiOverload ==
  [][\A t \in Tasks :
       calls'[t].postFallbackComment > calls[t].postFallbackComment
         => /\ error[t] = MsgOverloaded
            /\ calls[t].generateReview = 1]_vars

\* C26: the stored retryCount is never negative and never decreases; an
\* admitted retry request raises it by exactly 1, and every other step
\* (a rejected retry, a PR event, a step of a run) leaves it unchanged.
C26_RetryCountCountsAdmittedRetries ==
  [][\A i \in Ids :
       store[i].exists =>
         /\ store'[i].retryCount >= store[i].retryCount
         /\ store'[i].retryCount >= 0
         /\ \A t \in Tasks :
              (retryAdmitted(t) /\ doc[t].id = i)
                => store'[i].retryCount = store[i].retryCount + 1
         /\ (\A t \in Tasks : ~retryAdmitted(t))
              => store'[i].retryCount = store[i].retryCount]_vars

\* C27: no step leaves a record in the status skipped: the status of every
\* record is pending, in_progress, completed or failed; and an event that
\* is skipped ends in its handler, which writes nothing and launches no
\* run.
C27_SkippedNeverEntered ==
  [][/\ \A i \in Ids :
          store'[i].exists
            => store'[i].status \in {"pending", "in_progress", "completed",
                                     "failed"}
     /\ \A t \in Tasks :
          (handlePullRequest(t) /\ pc'[t] # "save")
            => /\ pc'[t] = "done"
               /\ store' = store
               /\ calls' = calls
               /\ \A u \in Tasks \ {t} : pc'[u] = pc[u]]_vars

\* A draft event was skipped while the key's record is failed.
C27_Witness ==
  /\ resp.message = "Draft PR skipped"
  /\ pc[resp.task] = "done"
  /\ StatusOf(findByPR) = "failed"

\* C28: the step that hands a run off (for an admitted PR event or an
\* admitted retry) leaves the record written: it exists, is the record a
\* lookup for the key finds, and holds what the handler's save changed: a
\* new record is pending at the event's commit; an existing one is pending
\* when the handler read another status (or when it is still pending), has
\* no error message when the handler read one (or when it still has none),
\* and holds the event's commit when the handler read another one.  As long
\* as a run is under way a lookup for the key finds its record.
C28_RecordWrittenBeforeHandOff ==
  [][\A t \in Tasks :
       /\ (pc[t] \in {"save", "incrementRetry"}
             /\ pc'[t] = "markInProgress")
            => /\ store'[doc'[t].id].exists
               /\ doc[t].id = Null
                    => /\ store'[doc'[t].id].status = "pending"
                       /\ store'[doc'[t].id].errorMessage = Unset
                       /\ store'[doc'[t].id].commitSha = req[t].sha
               /\ (doc[t].id # Null
                      /\ (doc[t].status # "pending"
                            \/ Rec(t).status = "pending"))
                    => store'[doc'[t].id].status = "pending"
               /\ (doc[t].id # Null
                      /\ (doc[t].errorMessage # NoMessage
                            \/ Rec(t).errorMessage = NoMessage))
                    => store'[doc'[t].id].errorMessage = NoMessage
               /\ (doc[t].id # Null /\ pc[t] = "save"
                      /\ doc[t].commitSha # req[t].sha)
                    => store'[doc'[t].id].commitSha = req[t].sha
               /\ findByPR' = doc'[t].id
       /\ pc'[t] \notin {"idle", "save", "incrementRetry", "done"}
            => findByPR' = doc'[t].id]_vars

\* The first event created the record and its run was handed off; the
\* second trigger's lookup found that record, pending.
C28_Witness ==
  /\ pc[1] = "markInProgress"
  /\ doc[1].id = 1
  /\ pc[2] \in {"save", "incrementRetry"}
  /\ doc[2] = DocOf(1, store[1])
  /\ store[1].status = "pending"

\* C29: a delivery without the X-GitHub-Event header or without the
\* X-GitHub-Delivery header is answered 400 by the validator, whatever its
\* signature: the controller is not called, no record is created or
\* modified and no run is launched.
C29_MissingHeaderRejected ==
  [][\A t \in Tasks, event \in BOOLEAN, delivery \in BOOLEAN,
        secret \in BOOLEAN, signature \in Signatures :
       (validated(t, event, delivery, secret, signature)
          /\ (~event \/ ~delivery))
         => /\ resp'.task = t
            /\ StatusCode(resp'.message) = 400
            /\ pc'[t] = "done"
            /\ store' = store
            /\ calls' = calls
            /\ \A u \in Tasks \ {t} : pc'[u] = pc[u]]_vars

\* A delivery without the X-GitHub-Delivery header was rejected and the
\* store holds no record.
C29_Witness ==
  /\ resp.message = "Missing X-GitHub-Delivery header"
  /\ pc[resp.task] = "done"
  /\ Existing = {}

\* C30: getReviewStatus and retryReview answer 400 to a request without
\* the owner or the repo parameter and 404 when the key has no record; in
\* these cases, and on every getReviewStatus request, no record is created
\* or modified and no run is launched.
C30_QueryRejections ==
  [][\A t \in Tasks, owner \in BOOLEAN, repo \in BOOLEAN :
       LET answered(code) ==
             /\ resp'.task = t
             /\ StatusCode(resp'.message) = code
           quiet ==
             /\ pc'[t] = "done"
             /\ store' = store
             /\ calls' = calls
             /\ \A u \in Tasks \ {t} : pc'[u] = pc[u]
       IN /\ statusRequested(t, owner, repo) => quiet
          /\ (/\ statusRequested(t, owner, repo)
                 \/ retryRequested(t, owner, repo)
              /\ ~owner \/ ~repo)
               => answered(400) /\ quiet
          /\ (/\ statusRequested(t, owner, repo)
                 \/ retryRequested(t, owner, repo)
              /\ owner /\ repo
              /\ findByPR = Null)
               => answered(404) /\ quiet
          /\ (/\ statusRequested(t, owner, repo)
              /\ owner /\ repo
              /\ findByPR # Null)
               => answered(200)]_vars

\* A request for a key without a record was answered 404 and the store
\* still holds no record.
C30_Witness ==
  /\ resp.message = "Review not found"
  /\ pc[resp.task] = "done"
  /\ Existing = {}

\* C31, as claimed: within one run the fetch has returned before generation
\* starts, comments and summary are on the record before the review is
\* posted, and whenever a run marks its record completed the post has
\* returned a review id to it.
C31_CompletedOnlyAfterPost ==
  [][\A t \in Tasks :
       /\ calls'[t].generateReview = calls[t].generateReview + 1
            => /\ calls[t].getPullRequestData = 1
               /\ prData[t].sha # Null
       /\ calls'[t].postReviewComments = calls[t].postReviewComments + 1
            => /\ calls[t].generateReview = 1
               /\ Rec(t).reviewedSha # Null
       /\ (pc[t] = "markCompleted" /\ pc'[t] = "done")
            => /\ calls[t].postReviewComments = 1
               /\ githubReview[t] # Null]_vars

\* C31, amended: the same order of fetch, generation, save and post; a run
\* that generated a review marks its record completed only after the post
\* has returned a review id, which it stores; a run that marks completed
\* without a review id is on one of the two early returns and has neither
\* generated nor posted.
C31_StepsSequential ==
  [][\A t \in Tasks :
       /\ calls'[t].generateReview = calls[t].generateReview + 1
            => /\ calls[t].getPullRequestData = 1
               /\ prData[t].sha # Null
       /\ calls'[t].postReviewComments = calls[t].postReviewComments + 1
            => /\ calls[t].generateReview = 1
               /\ Rec(t).reviewedSha # Null
       /\ (pc[t] = "markCompleted" /\ pc'[t] = "done")
            => \/ /\ calls[t].generateReview = 1
                  /\ calls[t].postReviewComments = 1
                  /\ githubReview[t] # Null
                  /\ store'[doc[t].id].githubReviewId = githubReview[t]
               \/ /\ calls[t].generateReview = 0
                  /\ calls[t].postReviewComments = 0
                  /\ githubReview[t] = Null
                  /\ store'[doc[t].id].githubReviewId = Rec(t).githubReviewId]_vars

\* A run went through fetch, generation, save and post, and marked the new
\* record completed with the id of the review it posted.
C31_Witness ==
  /\ \E t \in Tasks : pc[t] = "done"
  /\ store[EarlierId].status = "completed"
  /\ store[EarlierId].reviewedSha # Null
  /\ store[EarlierId].githubReviewId = reviews
  /\ store[EarlierId].errorMessage = Unset
  /\ reviews = 1
  /\ faults = 0

\* C32: every run that loaded its record ends with a terminal status on it:
\* the step that ends the run, from markCompleted or from the catch's
\* markFailed, leaves the record completed or failed.  Stated for an end at
\* which the record store rejects no write for a cause of its own; the run
\* has no loop, so it ends once every call has returned.
C32_RunEndsTerminal ==
  [][\A t \in Tasks :
       (/\ pc[t] \in {"markCompleted", "markFailed"}
        /\ pc'[t] = "done"
        /\ faults' = faults)
         => store'[doc[t].id].status \in {"completed", "failed"}]_vars

\* C33: with a record store that rejects no write, whenever no handler and
\* no run is in flight, an existing record is completed or failed.
C33_QuiescentRecordIsTerminal ==
  (faults = 0 /\ \A t \in Tasks : pc[t] \in {"idle", "done"})
    => \A i \in Existing : store[i].status \in {"completed", "failed"}

\* C36: every comment parseReviewResponse returns has a severity and a
\* category of the record's enumerations, so the save of the generated
\* comments is never rejected by validation.
C36_ParsedCommentsPersist ==
  gen.pc \in {"save", "saved", "rejected"}
    => /\ ValidComments(gen.comments)
       /\ gen.pc # "rejected"

\* C34: when a retry request is admitted (at its lookup, and again at the
\* step that launches its run) no run for the key is under way, whether or
\* not that run has marked the record in_progress yet.
C34_RetryAdmittedOnlyWithoutRun ==
  [][\A t \in Tasks :
       (\/ pc[t] = "idle" /\ pc'[t] = "incrementRetry"
        \/ retryAdmitted(t))
         => \A u \in Tasks \ {t} :
              pc[u] \in {"idle", "save", "incrementRetry", "done"}]_vars

\* C35: a completed record has no error message and a failed record has
\* one.
C35_ErrorMessageMatchesStatus ==
  \A i \in Existing :
    /\ store[i].status = "completed"
         => store[i].errorMessage \in {NoMessage, Unset}
    /\ store[i].status = "failed"
         => store[i].errorMessage \notin {NoMessage, Unset}

\* C37: the save that refreshes an existing record on an admitted PR event
\* changes nothing but status (to pending), errorMessage (to null) and
\* commitSha (to the event's head commit): comments and summary, the file
\* list, retryCount, the GitHub review id and the two dates are as before,
\* and no other record is touched.
C37_RefreshFrame ==
  [][\A t \in Tasks :
       (pc[t] = "save" /\ doc[t].id # Null /\ pc'[t] = "markInProgress")
         => /\ \E status \in {Rec(t).status, "pending"},
                  message \in {Rec(t).errorMessage, NoMessage},
                  sha \in {Rec(t).commitSha, req[t].sha} :
                 store'[doc[t].id] = [Rec(t) EXCEPT !.status = status,
                                                    !.errorMessage = message,
                                                    !.commitSha = sha]
            /\ \A i \in Ids \ {doc[t].id} : store'[i] = store[i]]_vars

\* A PR event refreshed the record of a failed review: pending, no error
\* message, with the dates of the failed run.
C37_Witness ==
  /\ resp.message = "PR review started"
  /\ pc[resp.task] = "markInProgress"
  /\ store[EarlierId].status = "pending"
  /\ store[EarlierId].errorMessage = NoMessage
  /\ store[EarlierId].reviewCompletedAt # Null
  /\ store[EarlierId].githubReviewId = Null

\* C38: an event for a draft pull request with a relevant action other than
\* synchronize, on a key whose record is completed, is answered as a draft
\* ("Draft PR skipped"), not as already reviewed.
C38_DraftDecidedBeforeAlreadyReviewed ==
  [][\A t \in Tasks, action \in relevantActions \ {"synchronize"} :
       (handleEvent(t, action, TRUE) /\ StatusOf(findByPR) = "completed")
         => resp' = [task |-> t, message |-> "Draft PR skipped"]]_vars

\* C39: of the events that found no record for the key, the first save
\* creates the record and launches its run; every later one is rejected by
\* the unique index: it changes no record, launches no run, and its
\* delivery is answered 200 ("Webhook received").  Stated for saves the
\* record store does not reject for a cause of its own.
C39_OneCreationWins ==
  [][\A t \in Tasks :
       (/\ pc[t] = "save"
        /\ doc[t].id = Null
        /\ pc'[t] # "save"
        /\ faults' = faults)
         => IF Existing = {}
            THEN /\ Existing' = {t}
                 /\ pc'[t] = "markInProgress"
                 /\ doc'[t].id = t
                 /\ resp' = [task |-> t, message |-> "PR review started"]
            ELSE /\ store' = store
                 /\ pc'[t] = "done"
                 /\ resp' = [task |-> t, message |-> "Webhook received"]
                 /\ StatusCode(resp'.message) = 200
                 /\ \A u \in Tasks \ {t} : pc'[u] = pc[u]]_vars

\* Two events found no record: the first created it and its run is under
\* way, the second's insert has just been rejected.
C39_Witness ==
  \E t \in Tasks, u \in Tasks :
    /\ t # u
    /\ Existing = {t}
    /\ pc[t] \notin {"idle", "save", "done"}
    /\ pc[u] = "done"
    /\ resp = [task |-> u, message |-> "Webhook received"]
    /\ faults = 0

\* C40: for each client key, a delivery that arrives when maxRequests
\* deliveries handed on for the key are younger than the window is answered
\* 429, is not recorded and is not handed on; any other delivery is
\* recorded and handed on; so at no time more than maxRequests deliveries
\* handed on for a key are younger than the window, and a delivery that is
\* a window old counts no more.
C40_WebhookRateLimit ==
  [][\A ip \in ClientIps :
       webhookRateLimit(ip, TRUE)
         => LET key == IF ip = "none" THEN "unknown" ELSE ip
                young == {i \in 1..Len(limit.admitted[key]) :
                            limit.admitted[key][i] > limit.now - windowMs}
            IN /\ Cardinality(young) >= maxRequests
                    => /\ limit'.last = [key |-> key, status |-> "429"]
                       /\ limit'.requests = limit.requests
                       /\ limit'.admitted = limit.admitted
               /\ Cardinality(young) < maxRequests
                    => /\ limit'.last = [key |-> key, status |-> "next"]
                       /\ limit'.admitted[key]
                            = Append(limit.admitted[key], limit.now)
                       /\ limit'.requests[key][Len(limit'.requests[key])]
                            = limit.now
               /\ \A k \in Keys :
                    Cardinality({i \in 1..Len(limit'.admitted[k]) :
                                   limit'.admitted[k][i]
                                     > limit'.now - windowMs})
                      <= maxRequests]_vars

\* A delivery was rejected half a window after the first of the hundred
\* deliveries handed on for its key: the table still holds that hundred.
C40_Witness ==
  /\ limit.last = [key |-> "10.0.0.1", status |-> "429"]
  /\ Len(limit.admitted["10.0.0.1"]) = maxRequests
  /\ limit.admitted["10.0.0.1"][1] = 0
  /\ limit.now = TickMs
  /\ Len(limit.requests["10.0.0.1"]) = maxRequests

====
